---- MODULE Spec2Model ----
(***************************************************************************)
(* ComponentClip and its StateManager (src/src/clip/ComponentClip.js).     *)
(*                                                                         *)
(* A ComponentClip builds its children from a config, registers each with  *)
(* its StateManager, and then serves setState, applyChildParams,           *)
(* getChildClip, getStateConfig, getStateIds and destroy calls.  A child   *)
(* of type component is a ComponentClip of its own, kept in nested under   *)
(* its handle.  Object references are modelled by names: a child           *)
(* handle by its position in config.children, a State object by the state *)
(* id it is stored under in _states.  JS null is the string "null", a      *)
(* missing property is "undefined", a missing handle is NoHandle.  A JS   *)
(* object is a function whose DOMAIN is the set of properties it owns, so  *)
(* hasOwnProperty(f) is f \in DOMAIN.                                      *)
(***************************************************************************)
EXTENDS Integers, Sequences, FiniteSets, TLC

\* Largest transform value used in configs and applyChildParams arguments.
MaxVal == 2

TYPE_IMAGE == "image"
TYPE_COMPONENT == "component"
TYPE_TEXT == "text"
TYPE_TILE_SPRITE == "tileSprite"
TYPE_POLYGON == "polygon"
TYPE_ZONE == "zone"

Null == "null"
Undefined == "undefined"
NoHandle == 0

VARIABLES
    config,                   \* this._config
    handles,                  \* the game objects: handle -> its fields
    childrenById,             \* this._childrenById
    childComponentClips,      \* this.childComponentClips
    list,                     \* the Container's display list (this.add)
    masks,                    \* handle -> the handle its mask was made from
    dynamicChildrenIds,       \* StateManager._dynamicChildrenIds
    states,                   \* StateManager._states
    stateIds,                 \* StateManager.stateIds
    components,               \* StateManager._components
    componentKeys,            \* StateManager._componentKeys
    residentComponentsByKey,  \* StateManager._residentComponentsByKey
    currentState,             \* StateManager._currentState
    currentStateId,           \* StateManager._currentStateId
    nested,                   \* handle of a component child -> that ComponentClip
    destroyed,                \* the destroy calls made so far, in order
    ret                       \* the last call: what was called and how it ended

built == <<config, childrenById, childComponentClips, list, masks,
           dynamicChildrenIds, states, stateIds, components, componentKeys,
           residentComponentsByKey>>

\* The child clips and the destroy log.
tree == <<nested, destroyed>>

vars == <<config, handles, childrenById, childComponentClips, list, masks,
          dynamicChildrenIds, states, stateIds, components, componentKeys,
          residentComponentsByKey, currentState, currentStateId, nested,
          destroyed, ret>>

-----------------------------------------------------------------------------
(* Helpers for JS objects *)

\* obj[k] = v added to a JS object (insert or overwrite).
Put(obj, k, v) == [x \in DOMAIN obj \cup {k} |-> IF x = k THEN v ELSE obj[x]]

\* config.f || d : the property when it is owned and truthy, else d.
OrDefault(cfg, f, d) ==
    IF f \in DOMAIN cfg /\ cfg[f] # 0 THEN cfg[f] ELSE d

\* config.key: the property, or undefined.
KeyOf(cfg) == IF "key" \in DOMAIN cfg THEN cfg["key"] ELSE Undefined

\* A game object as the engine's factory returns it.
NewGameObject ==
    [x |-> 0, y |-> 0, scaleX |-> 1, scaleY |-> 1, angle |-> 0, alpha |-> 1,
     visible |-> TRUE]

SetupCommonParams(component, cfg) ==
    [component EXCEPT
        !.x = OrDefault(cfg, "x", 0),
        !.y = OrDefault(cfg, "y", 0),
        !.scaleX = OrDefault(cfg, "scaleX", 1),
        !.scaleY = OrDefault(cfg, "scaleY", 1),
        !.angle = OrDefault(cfg, "angle", 0),
        !.alpha = IF "alpha" \in DOMAIN cfg THEN cfg["alpha"] ELSE 1]

-----------------------------------------------------------------------------
(* State and StateManager construction *)

\* Object.keys(config) of a StateConfig, kept as a sequence of [id, params]
\* in property order; params is the StateConfig's value for that id.
ObjectKeys(stateConfig) == [i \in 1..Len(stateConfig) |-> stateConfig[i].id]

\* config[id] of a StateConfig.
ConfigOf(stateConfig, id) ==
    LET i == CHOOSE j \in 1..Len(stateConfig) : stateConfig[j].id = id
    IN stateConfig[i].params

NewState(stateConfig) ==
    [config |-> stateConfig, componentIds |-> ObjectKeys(stateConfig)]

RECURSIVE Flatten(_)
Flatten(arrays) ==
    IF arrays = <<>> THEN <<>> ELSE Head(arrays) \o Flatten(Tail(arrays))

Contains(array, v) == \E i \in 1..Len(array) : array[i] = v

RECURSIVE UniqFrom(_, _)
UniqFrom(array, seen) ==
    IF array = <<>> THEN seen
    ELSE IF Contains(seen, Head(array)) THEN UniqFrom(Tail(array), seen)
    ELSE UniqFrom(Tail(array), Append(seen, Head(array)))

\* _.uniq that keeps the duplicates.
Uniq_KeepsDuplicates(array) == array

Uniq(array) == UniqFrom(array, <<>>)

\* _.difference(array, other): the values of array not in other, in order.
Difference(array, other) == SelectSeq(array, LAMBDA v : ~Contains(other, v))

\* new StateManager(clip, config); cfgStates is config.states as a sequence
\* of [id, config] in property order.
NewStateManager(cfgStates) ==
    LET ids == [i \in 1..Len(cfgStates) |-> cfgStates[i].id]
        sts == [s \in {cfgStates[i].id : i \in 1..Len(cfgStates)} |->
                   NewState((CHOOSE e \in {cfgStates[i] : i \in 1..Len(cfgStates)} :
                                e.id = s).config)]
        idsArrays == [i \in 1..Len(cfgStates) |-> sts[ids[i]].componentIds]
    IN [dynamicChildrenIds |-> Uniq(Flatten(idsArrays)),
        states |-> sts,
        stateIds |-> ids,
        components |-> <<>>,
        currentState |-> Null,
        currentStateId |-> Null,
        componentKeys |-> <<>>,
        residentComponentsByKey |-> <<>>]

AddComponent(sm, component, childId, childKey) ==
    IF ~Contains(sm.dynamicChildrenIds, childId)
    THEN IF childKey # Undefined
         THEN [sm EXCEPT !.residentComponentsByKey = Put(@, childKey, component)]
         ELSE sm
    ELSE [sm EXCEPT
            !.components = Put(@, childId, component),
            !.componentKeys =
                IF childKey # Undefined THEN Put(@, childId, childKey) ELSE @]

-----------------------------------------------------------------------------
(* ComponentClip construction *)

\* scene.add.zone(config.x || 0, config.y || 0, ...): only x and y are set.
CreateHitZoneFromConfig(cfg) ==
    [NewGameObject EXCEPT !.x = OrDefault(cfg, "x", 0),
                          !.y = OrDefault(cfg, "y", 0)]

\* image, text, tileSprite and polygon: created, then _setupCommonParams.
CreateGameObjectFromConfig(cfg) == SetupCommonParams(NewGameObject, cfg)

\* A masking loop that sets no mask.
SetMasks_SetsNone(clip, ids, maskSource, byId) == clip

RECURSIVE SetMasks(_, _, _, _)
\* maskedChild.setMask(mask) for every id of config.masking; a missing
\* maskedChild throws.
SetMasks(clip, ids, maskSource, byId) ==
    IF ids = <<>> THEN clip
    ELSE IF Head(ids) \notin DOMAIN byId THEN [clip EXCEPT !.error = TRUE]
    ELSE SetMasks([clip EXCEPT !.masks = Put(@, byId[Head(ids)], maskSource)],
                  Tail(ids), maskSource, byId)

RECURSIVE NewComponentClip(_)

\* _createChildFromConfig(config); child is the name of the new handle. A
\* child of type component is a new ComponentClip built from the child's
\* config; an error thrown while building it leaves this constructor too.
CreateChildFromConfig(clip, cfg, child) ==
    LET known == cfg.type \in {TYPE_IMAGE, TYPE_TEXT, TYPE_TILE_SPRITE,
                               TYPE_COMPONENT, TYPE_ZONE, TYPE_POLYGON}
        object == IF cfg.type = TYPE_ZONE THEN CreateHitZoneFromConfig(cfg)
                  ELSE CreateGameObjectFromConfig(cfg)
        isMask == cfg.type = TYPE_POLYGON /\ "masking" \in DOMAIN cfg
        masked == IF isMask
                  THEN SetMasks(clip, cfg["masking"], child, clip.childrenById)
                  ELSE clip
        childClip == NewComponentClip(cfg)
    IN IF ~known THEN clip
       ELSE IF masked.error THEN masked
       ELSE IF cfg.type = TYPE_COMPONENT /\ childClip.error
            THEN [clip EXCEPT !.error = TRUE]
       ELSE [masked EXCEPT
                !.nested = IF cfg.type = TYPE_COMPONENT
                           THEN Put(@, child, childClip) ELSE @,
                !.handles = Put(@, child, object),
                !.childrenById = Put(@, cfg.childId, child),
                !.childComponentClips = Append(@, child),
                !.list = IF isMask THEN @ ELSE Append(@, child),
                !.sm = AddComponent(@, child, cfg.childId, KeyOf(cfg))]

RECURSIVE ParseChildren(_, _, _)
\* _parseConfig: the loop over config.children, from child i on.
ParseChildren(clip, children, i) ==
    IF i > Len(children) \/ clip.error THEN clip
    ELSE ParseChildren(CreateChildFromConfig(clip, children[i], i), children, i + 1)

\* new ComponentClip(scene, config, textures); a config without states has
\* no state to iterate in the StateManager's constructor.
NewComponentClip(cfg) ==
    ParseChildren([handles |-> <<>>,
                   childrenById |-> <<>>,
                   childComponentClips |-> <<>>,
                   list |-> <<>>,
                   masks |-> <<>>,
                   nested |-> <<>>,
                   sm |-> NewStateManager(IF "states" \in DOMAIN cfg
                                          THEN cfg["states"] ELSE <<>>),
                   error |-> FALSE],
                  IF "children" \in DOMAIN cfg THEN cfg["children"] ELSE <<>>, 1)

-----------------------------------------------------------------------------
(* The configs and arguments the model draws from *)

ChildIds == {"c1", "c2", "c3"}
StateNames == {"A", "B"}
\* setState arguments: the declared ids and one that is never declared.
StateArgs == StateNames \cup {"nope"}
\* getChildClip arguments: "k2" is a key no child has.
KeyArgs == {"k1", "k2"}
\* applyChildParams child ids: "zz" names no child.
ChildIdArgs == ChildIds \cup {"zz"}
\* applyChildParams params.
ParamArgs ==
    { <<>>,
      ("x" :> MaxVal) @@ ("scaleX" :> 0) @@ ("alpha" :> 0) }

\* The StateConfig entries: A lists c1, c2, c3 and B lists c3, c2, c1 (in
\* that property order), each kept or dropped by the membership sets inA, inB.
EntriesA ==
    << [id |-> "c1", params |-> ("x" :> 1)],
       [id |-> "c2", params |-> ("y" :> MaxVal) @@ ("scaleX" :> 0)],
       [id |-> "c3", params |-> ("angle" :> MaxVal) @@ ("alpha" :> 1)] >>

EntriesB ==
    << [id |-> "c3", params |-> <<>>],
       [id |-> "c2", params |-> ("x" :> MaxVal) @@ ("scaleY" :> MaxVal) @@ ("alpha" :> 0)],
       [id |-> "c1", params |-> ("x" :> 0) @@ ("y" :> 1) @@ ("scaleY" :> 0)] >>

\* The children: c1 and c2 share the key "k1", c3 has no key; c2's type is
\* type2 (an unknown type constructs no handle).
ChildrenOf(type2) ==
    << [type |-> TYPE_IMAGE, childId |-> "c1"] @@ ("key" :> "k1")
            @@ ("x" :> 1) @@ ("y" :> 1),
       [type |-> type2, childId |-> "c2"] @@ ("key" :> "k1")
            @@ ("scaleX" :> MaxVal) @@ ("angle" :> 1),
       [type |-> TYPE_TEXT, childId |-> "c3"] @@ ("alpha" :> 0) >>

ConfigOfClip(inA, inB, type2) ==
    [type |-> TYPE_COMPONENT,
     children |-> ChildrenOf(type2),
     states |->
        << [id |-> "A", config |-> SelectSeq(EntriesA, LAMBDA e : e.id \in inA)],
           [id |-> "B", config |-> SelectSeq(EntriesB, LAMBDA e : e.id \in inB)] >>]

Configs ==
    { ConfigOfClip(inA, inB, type2) :
        inA \in SUBSET ChildIds, inB \in SUBSET ChildIds,
        type2 \in {TYPE_IMAGE, "unknown"} }

-----------------------------------------------------------------------------
(* The operations *)

\* What a call leaves behind for its caller: outcome is "noop" (an early
\* return), "applied", "found", "null" or "TypeError" (the call threw).
\* params is the params argument of the call and value the object or array
\* it returned, when it has one.
Ret(op, arg, force, result, outcome) ==
    [op |-> op, arg |-> arg, force |-> force, result |-> result,
     outcome |-> outcome, params |-> <<>>, value |-> <<>>]

Init ==
    \E cfg \in Configs :
        LET clip == NewComponentClip(cfg) IN
        /\ ~clip.error
        /\ config = cfg
        /\ handles = clip.handles
        /\ childrenById = clip.childrenById
        /\ childComponentClips = clip.childComponentClips
        /\ list = clip.list
        /\ masks = clip.masks
        /\ dynamicChildrenIds = clip.sm.dynamicChildrenIds
        /\ states = clip.sm.states
        /\ stateIds = clip.sm.stateIds
        /\ components = clip.sm.components
        /\ componentKeys = clip.sm.componentKeys
        /\ residentComponentsByKey = clip.sm.residentComponentsByKey
        /\ currentState = clip.sm.currentState
        /\ currentStateId = clip.sm.currentStateId
        /\ nested = clip.nested
        /\ destroyed = <<>>
        /\ ret = Ret("new", "", FALSE, NoHandle, "applied")

RECURSIVE HidePass(_, _, _)
\* for (id of idsToHide) this._components[id].visible = false; a missing
\* component throws and leaves the loop.
HidePass(ids, comps, h) ==
    IF ids = <<>> THEN [handles |-> h, thrown |-> FALSE]
    ELSE IF Head(ids) \notin DOMAIN comps THEN [handles |-> h, thrown |-> TRUE]
    ELSE HidePass(Tail(ids), comps,
                  [h EXCEPT ![comps[Head(ids)]].visible = FALSE])

RECURSIVE ShowPass(_, _, _, _)
\* for (id of idsToShow) { component.visible = true; _setupCommonParams }
ShowPass(ids, stateConfig, comps, h) ==
    IF ids = <<>> THEN [handles |-> h, thrown |-> FALSE]
    ELSE IF Head(ids) \notin DOMAIN comps THEN [handles |-> h, thrown |-> TRUE]
    ELSE ShowPass(Tail(ids), stateConfig, comps,
                  [h EXCEPT ![comps[Head(ids)]] =
                      SetupCommonParams([@ EXCEPT !.visible = TRUE],
                                        ConfigOf(stateConfig, Head(ids)))])

\* this._states[stateId]: the State stored under stateId, or undefined.
StateAt(stateId) == IF stateId \in DOMAIN states THEN stateId ELSE Undefined

\* setupState() without its hide pass.
SetupState_NoHidePass(state, dynIds, comps, h) ==
    IF state = Undefined THEN [handles |-> h, thrown |-> TRUE]
    ELSE ShowPass(states[state].componentIds, states[state].config, comps, h)

\* setupState() hiding every child that is not shown, not only the
\* dynamic ones.
SetupState_HidesAllOthers(state, dynIds, comps, h) ==
    IF state = Undefined THEN [handles |-> h, thrown |-> TRUE]
    ELSE LET idsToShow == states[state].componentIds
             shown == {comps[id] : id \in {i \in DOMAIN comps : Contains(idsToShow, i)}}
             hidden == [c \in DOMAIN h |->
                           IF c \in shown THEN h[c]
                           ELSE [h[c] EXCEPT !.visible = FALSE]]
         IN ShowPass(idsToShow, states[state].config, comps, hidden)

\* setupState() whose hide pass also resets the hidden child's transform to
\* the defaults.
SetupState_HideResetsTransform(state, dynIds, comps, h) ==
    IF state = Undefined THEN [handles |-> h, thrown |-> TRUE]
    ELSE LET idsToShow == states[state].componentIds
             idsToHide == Difference(dynIds, idsToShow)
             hidden == HidePass(idsToHide, comps, h)
             reset == [c \in DOMAIN h |->
                          IF \E id \in DOMAIN comps :
                                comps[id] = c /\ Contains(idsToHide, id)
                          THEN SetupCommonParams(hidden.handles[c], <<>>)
                          ELSE hidden.handles[c]]
         IN IF hidden.thrown THEN hidden
            ELSE ShowPass(idsToShow, states[state].config, comps, reset)

\* setupState() with this._currentState = state; reading componentIds of
\* undefined throws.
SetupState(state, dynIds, comps, h) ==
    IF state = Undefined THEN [handles |-> h, thrown |-> TRUE]
    ELSE LET idsToShow == states[state].componentIds
             idsToHide == Difference(dynIds, idsToShow)
             hidden == HidePass(idsToHide, comps, h)
         IN IF hidden.thrown THEN hidden
            ELSE ShowPass(idsToShow, states[state].config, comps, hidden.handles)

\* setState without the check that stateId is declared.
SetStateReturnsEarly_NoDeclaredCheck(stateId, force) ==
    currentStateId = stateId /\ ~force

\* setState without the early return on the current state.
SetStateReturnsEarly_NoCurrentCheck(stateId, force) ==
    stateId \notin DOMAIN states

\* The two early returns of setState.
SetStateReturnsEarly(stateId, force) ==
    \/ currentStateId = stateId /\ ~force
    \/ stateId \notin DOMAIN states

SetState(stateId, force) ==
    IF SetStateReturnsEarly(stateId, force)
    THEN /\ ret' = Ret("setState", stateId, force, NoHandle, "noop")
         /\ UNCHANGED <<built, tree, handles, currentState, currentStateId>>
    ELSE LET done == SetupState(StateAt(stateId), dynamicChildrenIds,
                                components, handles) IN
         /\ currentStateId' = stateId
         /\ currentState' = StateAt(stateId)
         /\ handles' = done.handles
         /\ ret' = Ret("setState", stateId, force, NoHandle,
                       IF done.thrown THEN "TypeError" ELSE "applied")
         /\ UNCHANGED <<built, tree>>

ApplyChildParams(childId, params) ==
    IF childId \notin DOMAIN childrenById
    THEN /\ ret' = [Ret("applyChildParams", childId, FALSE, NoHandle, "noop")
                        EXCEPT !.params = params]
         /\ UNCHANGED <<built, tree, handles, currentState, currentStateId>>
    ELSE /\ handles' = [handles EXCEPT ![childrenById[childId]] =
                            SetupCommonParams(@, params)]
         /\ ret' = [Ret("applyChildParams", childId, FALSE, NoHandle, "applied")
                        EXCEPT !.params = params]
         /\ UNCHANGED <<built, tree, currentState, currentStateId>>

RECURSIVE ScanComponentIds(_, _)
\* The loop of getActiveComponentByKey over the current state's ids.
ScanComponentIds(ids, key) ==
    IF ids = <<>> THEN NoHandle
    ELSE IF Head(ids) \in DOMAIN componentKeys /\ componentKeys[Head(ids)] = key
         THEN components[Head(ids)]
         ELSE ScanComponentIds(Tail(ids), key)

\* getActiveComponentByKey scanning every dynamic id, not the current
\* state's.
GetActiveComponentByKey_ScansAllDynamic(key) ==
    IF key \in DOMAIN residentComponentsByKey THEN residentComponentsByKey[key]
    ELSE IF currentState = Null THEN NoHandle
    ELSE ScanComponentIds(dynamicChildrenIds, key)

\* getActiveComponentByKey looking at the current state before the
\* residents.
GetActiveComponentByKey_DynamicFirst(key) ==
    LET found == IF currentState = Null THEN NoHandle
                 ELSE ScanComponentIds(states[currentState].componentIds, key)
    IN IF found # NoHandle THEN found
       ELSE IF key \in DOMAIN residentComponentsByKey
            THEN residentComponentsByKey[key]
            ELSE NoHandle

\* NoHandle is the null return.
GetActiveComponentByKey(key) ==
    IF key \in DOMAIN residentComponentsByKey THEN residentComponentsByKey[key]
    ELSE IF currentState = Null THEN NoHandle
    ELSE ScanComponentIds(states[currentState].componentIds, key)

\* Whether getActiveComponentByKey(key) throws: it reads componentIds of an
\* undefined _currentState.
GetActiveComponentByKeyThrows(key) ==
    /\ key \notin DOMAIN residentComponentsByKey
    /\ currentState = Undefined

GetChildClip(key) ==
    IF GetActiveComponentByKeyThrows(key)
    THEN /\ ret' = Ret("getChildClip", key, FALSE, NoHandle, "TypeError")
         /\ UNCHANGED <<built, tree, handles, currentState, currentStateId>>
    ELSE LET found == GetActiveComponentByKey(key) IN
         /\ ret' = Ret("getChildClip", key, FALSE, found,
                       IF found = NoHandle THEN "null" ELSE "found")
         /\ UNCHANGED <<built, tree, handles, currentState, currentStateId>>

\* getStateConfigById without the hasOwnProperty guard: reading config of
\* undefined throws.
GetStateConfigById_Unguarded(stateId) ==
    IF stateId \in DOMAIN states
    THEN [outcome |-> "found", value |-> states[stateId].config]
    ELSE [outcome |-> "TypeError", value |-> <<>>]

\* StateManager.getStateConfigById: null for an id that is not declared,
\* else the raw config of the State.
GetStateConfigById(stateId) ==
    IF stateId \notin DOMAIN states
    THEN [outcome |-> "null", value |-> <<>>]
    ELSE [outcome |-> "found", value |-> states[stateId].config]

GetStateConfig(stateId) ==
    LET got == GetStateConfigById(stateId) IN
    /\ ret' = [Ret("getStateConfig", stateId, FALSE, NoHandle, got.outcome)
                    EXCEPT !.value = got.value]
    /\ UNCHANGED <<built, tree, handles, currentState, currentStateId>>

GetStateIds ==
    /\ ret' = [Ret("getStateIds", "", FALSE, NoHandle, "found")
                    EXCEPT !.value = stateIds]
    /\ UNCHANGED <<built, tree, handles, currentState, currentStateId>>

Next ==
    \/ \E stateId \in StateArgs, force \in BOOLEAN : SetState(stateId, force)
    \/ \E childId \in ChildIdArgs, params \in ParamArgs :
            ApplyChildParams(childId, params)
    \/ \E key \in KeyArgs : GetChildClip(key)
    \/ \E stateId \in StateArgs : GetStateConfig(stateId)
    \/ GetStateIds

Spec == Init /\ [][Next]_vars

-----------------------------------------------------------------------------
(* The vocabulary of the properties, read off the config *)

DeclaredStateIds == {config.states[i].id : i \in 1..Len(config.states)}

\* The StateConfig declared under state id s.
StateConfigOf(s) ==
    (CHOOSE e \in {config.states[i] : i \in 1..Len(config.states)} : e.id = s).config

\* The key-set of state s.
KeySet(s) == {StateConfigOf(s)[j].id : j \in 1..Len(StateConfigOf(s))}

\* The partial transform state s gives child id.
PartialOf(s, id) ==
    (CHOOSE e \in {StateConfigOf(s)[j] : j \in 1..Len(StateConfigOf(s))} :
        e.id = id).params

InSomeState(id) == \E s \in DeclaredStateIds : id \in KeySet(s)

ChildIdOf(h) == config.children[h].childId

HasKey(h, key) ==
    "key" \in DOMAIN config.children[h] /\ config.children[h]["key"] = key

\* The constructed children that are dynamic, and those that are resident.
DynamicHandles == {h \in DOMAIN handles : InSomeState(ChildIdOf(h))}
ResidentHandles == DOMAIN handles \ DynamicHandles

\* Every childId some state names has a constructed handle.
AllDynamicConstructed ==
    \A s \in DeclaredStateIds : \A id \in KeySet(s) :
        \E h \in DOMAIN handles : ChildIdOf(h) = id

\* A partial transform completed with the defaults.
Completed(p) ==
    [x |-> IF "x" \in DOMAIN p THEN p["x"] ELSE 0,
     y |-> IF "y" \in DOMAIN p THEN p["y"] ELSE 0,
     scaleX |-> IF "scaleX" \in DOMAIN p THEN p["scaleX"] ELSE 1,
     scaleY |-> IF "scaleY" \in DOMAIN p THEN p["scaleY"] ELSE 1,
     angle |-> IF "angle" \in DOMAIN p THEN p["angle"] ELSE 0,
     alpha |-> IF "alpha" \in DOMAIN p THEN p["alpha"] ELSE 1]

TransformOf(handle) ==
    [x |-> handle.x, y |-> handle.y, scaleX |-> handle.scaleX,
     scaleY |-> handle.scaleY, angle |-> handle.angle, alpha |-> handle.alpha]

\* The active state id, the current State and every child's fields are as
\* before the step.
NothingSwitched ==
    /\ currentStateId' = currentStateId
    /\ currentState' = currentState
    /\ handles' = handles

-----------------------------------------------------------------------------
(* C1 *)

\* C1: exclusive visibility. When every dynamic childId has a constructed
\* handle and some state is active, a dynamic child is visible exactly when
\* its childId is in the active state's key-set, after any sequence of
\* setState, applyChildParams and getChildClip calls.
ExclusiveVisibility ==
    (AllDynamicConstructed /\ currentStateId # Null) =>
        \A h \in DynamicHandles :
            handles[h].visible = (ChildIdOf(h) \in KeySet(currentStateId))

\* A state is active, one dynamic child is shown and another is hidden, and
\* the last call was an applyChildParams on a hidden child.
ExclusiveVisibilityWitness ==
    /\ AllDynamicConstructed
    /\ currentStateId # Null
    /\ ret.op = "applyChildParams" /\ ret.outcome = "applied"
    /\ \E h1, h2 \in DynamicHandles :
          /\ handles[h1].visible
          /\ ~handles[h2].visible
          /\ ChildIdOf(h2) = ret.arg

(* C2 *)

\* C2: before any setState call has switched to a state, every dynamic
\* child has visible = false.
DynamicInvisibleByDefault ==
    currentStateId = Null => \A h \in DynamicHandles : ~handles[h].visible

(* C3 *)

\* C3: resident invariance. A setState call, whatever its target id and
\* force flag, leaves every field of every resident child as it was.
ResidentInvariance ==
    [][ret'.op = "setState" =>
          \A h \in ResidentHandles : handles'[h] = handles[h]]_vars

\* A forced setState has switched states while a resident child carries
\* the transform an applyChildParams call gave it.
ResidentInvarianceWitness ==
    /\ ret.op = "setState" /\ ret.outcome = "applied"
    /\ DynamicHandles # {}
    /\ \E h \in ResidentHandles :
          /\ handles[h].visible
          /\ handles[h].x = MaxVal /\ handles[h].alpha = 0

(* C4 *)

\* C4: unknown state no-op. setState with an id that is not declared, forced
\* or not, leaves the active state and every child's fields unchanged.
UnknownStateNoOp ==
    [][(ret'.op = "setState" /\ ret'.arg \notin DeclaredStateIds) =>
          NothingSwitched]_vars

\* A forced setState with an undeclared id has returned while a state is
\* active.
UnknownStateNoOpWitness ==
    /\ ret.op = "setState" /\ ret.arg \notin DeclaredStateIds /\ ret.force
    /\ currentStateId # Null

(* C5 *)

\* C5: idempotent re-entry. An unforced setState(s) while s is the active
\* state changes neither the active state nor any child's fields.
IdempotentReentry ==
    [][(ret'.op = "setState" /\ ~ret'.force /\ ret'.arg = currentStateId) =>
          NothingSwitched]_vars

\* An unforced setState of the active state has returned, and a child shown
\* in that state still carries a transform other than the state's, written
\* by applyChildParams.
IdempotentReentryWitness ==
    /\ ret.op = "setState" /\ ~ret.force /\ ret.outcome = "noop"
    /\ ret.arg = currentStateId
    /\ currentStateId \in DeclaredStateIds
    /\ \E h \in DynamicHandles :
          /\ ChildIdOf(h) \in KeySet(currentStateId)
          /\ handles[h].visible
          /\ handles[h] # SetupCommonParams(handles[h],
                                            PartialOf(currentStateId, ChildIdOf(h)))

(* C6 *)

\* C6: forced re-entry re-applies. After setState(s, true) with s declared
\* and already active, every child whose id is in s's key-set is visible and
\* has the six transform fields of s's partial transform for it, completed
\* with the defaults.
ForcedReentryReapplies ==
    [][(/\ ret'.op = "setState" /\ ret'.force
        /\ ret'.arg = currentStateId
        /\ ret'.arg \in DeclaredStateIds) =>
          \A h \in DOMAIN handles :
              ChildIdOf(h) \in KeySet(ret'.arg) =>
                  /\ handles'[h].visible
                  /\ TransformOf(handles'[h]) =
                        Completed(PartialOf(ret'.arg, ChildIdOf(h)))]_vars

(* C7 *)

ResidentPrecedence ==
    (/\ ret.op = "getChildClip"
     /\ \E r \in ResidentHandles : HasKey(r, ret.arg)) =>
        /\ ret.result \in ResidentHandles
        /\ HasKey(ret.result, ret.arg)

\* The lookup has returned a resident while a dynamic child of the active
\* state has the same key.
ResidentPrecedenceWitness ==
    /\ ret.op = "getChildClip" /\ ret.result \in ResidentHandles
    /\ currentStateId # Null
    /\ \E d \in DynamicHandles :
          /\ HasKey(d, ret.arg)
          /\ ChildIdOf(d) \in KeySet(currentStateId)
          /\ handles[d].visible

(* C9 *)

\* C9: classification. A registered child is in the dynamic-by-id map
\* exactly when its childId is a key of some declared state; otherwise it is
\* resident, found under its key in the resident-by-key map and in no
\* dynamic map; dynamicChildrenIds is the duplicate-free union of the
\* states' key-sets.
Classification ==
    /\ \A h \in DOMAIN handles :
          (ChildIdOf(h) \in DOMAIN components /\ components[ChildIdOf(h)] = h)
              <=> InSomeState(ChildIdOf(h))
    /\ \A h \in ResidentHandles :
          /\ ChildIdOf(h) \notin DOMAIN components \cup DOMAIN componentKeys
          /\ \A k \in DOMAIN config.children[h] :
                k = "key" => config.children[h][k] \in DOMAIN residentComponentsByKey
    /\ \A k \in DOMAIN residentComponentsByKey :
          residentComponentsByKey[k] \in ResidentHandles
    /\ \A i, j \in 1..Len(dynamicChildrenIds) :
          i # j => dynamicChildrenIds[i] # dynamicChildrenIds[j]
    /\ {dynamicChildrenIds[i] : i \in 1..Len(dynamicChildrenIds)} =
          UNION {KeySet(s) : s \in DeclaredStateIds}

\* A config where one childId is in both states' key-sets, one constructed
\* child is dynamic and another is resident.
ClassificationWitness ==
    /\ \E id \in KeySet("A") \cap KeySet("B") :
          \E h \in DynamicHandles : ChildIdOf(h) = id
    /\ ResidentHandles # {}
    /\ Len(dynamicChildrenIds) >= 2

(* C10 *)

\* C10: no error is surfaced. For every config and argument, setState and
\* getChildClip return normally: no call ends in a thrown error.
NoErrorSurfaced == ret.outcome # "TypeError"

-----------------------------------------------------------------------------
(* _setupCommonParams on its own: every partial transform over 0..MaxVal *)

TransformFields == {"x", "y", "scaleX", "scaleY", "angle", "alpha"}

\* Every object that owns some of the six fields, each with a value in
\* 0..MaxVal.
Partials == UNION {[D -> 0..MaxVal] : D \in SUBSET TransformFields}

\* One game object, as the engine returns it, no clip around it, and the
\* params the call to come is made with.
InitApply ==
    /\ \E params \in Partials :
          ret = [Ret("new", "", FALSE, NoHandle, "applied")
                    EXCEPT !.params = params]
    /\ config = [type |-> TYPE_IMAGE, childId |-> "c1"]
    /\ handles = <<NewGameObject>>
    /\ childrenById = <<>>
    /\ childComponentClips = <<>>
    /\ list = <<>>
    /\ masks = <<>>
    /\ dynamicChildrenIds = <<>>
    /\ states = <<>>
    /\ stateIds = <<>>
    /\ components = <<>>
    /\ componentKeys = <<>>
    /\ residentComponentsByKey = <<>>
    /\ currentState = Null
    /\ currentStateId = Null
    /\ nested = <<>>
    /\ destroyed = <<>>

\* ComponentClip._setupCommonParams(component, params) on that object.
SetupCommonParamsCall(params) ==
    /\ ret.op = "new"
    /\ handles' = [handles EXCEPT ![1] = SetupCommonParams(@, params)]
    /\ ret' = [Ret("_setupCommonParams", "", FALSE, 1, "applied")
                  EXCEPT !.params = params]
    /\ UNCHANGED <<built, tree, currentState, currentStateId>>

NextApply == SetupCommonParamsCall(ret.params)

SpecApply == InitApply /\ [][NextApply]_vars

(* C11 *)

\* C11: transform defaulting. After apply(handle, p) each of the six fields
\* is p's value when p has the field (a present 0 included) and its default
\* (x, y, angle = 0; scaleX, scaleY, alpha = 1) when p has not.
TransformDefaulting ==
    ret.op = "_setupCommonParams" =>
        TransformOf(handles[1]) = Completed(ret.params)

(* C12 *)

\* C12: applyChildParams bypasses state gating and touches one child's
\* transform only. applyChildParams(childId, p) gives the child with that
\* childId, resident or dynamic, shown or hidden, in every machine state,
\* the transform p completed with the defaults; it changes no visible flag,
\* no other child and not the active state; with a childId that names no
\* constructed child it changes nothing.
ApplyChildParamsFrame ==
    [][ret'.op = "applyChildParams" =>
          /\ currentStateId' = currentStateId
          /\ currentState' = currentState
          /\ DOMAIN handles' = DOMAIN handles
          /\ \A h \in DOMAIN handles :
                /\ handles'[h].visible = handles[h].visible
                /\ IF ChildIdOf(h) = ret'.arg
                   THEN TransformOf(handles'[h]) = Completed(ret'.params)
                   ELSE handles'[h] = handles[h]]_vars

(* C13 *)

NoPartialApplication ==
    (ret.op = "setState" /\ currentStateId # Null) =>
        \A h \in DynamicHandles :
            handles[h].visible = (ChildIdOf(h) \in KeySet(currentStateId))

(* C15 *)

\* C15: hidden children keep stale transforms. On every setState(s) that
\* completes, each dynamic child whose id is not in s's componentIds has
\* visible = false afterwards and its x, y, scaleX, scaleY, angle and alpha
\* are as they were before the call.
HiddenKeepStaleTransforms ==
    [][(ret'.op = "setState" /\ ret'.outcome = "applied") =>
          \A h \in DynamicHandles :
              ~Contains(states[ret'.arg].componentIds, ChildIdOf(h)) =>
                  /\ handles'[h].visible = FALSE
                  /\ TransformOf(handles'[h]) = TransformOf(handles[h])]_vars

\* setState("A") has just hidden c2, which still carries the transform
\* state B gave it.
HiddenKeepStaleTransformsWitness ==
    /\ ret.op = "setState" /\ ret.outcome = "applied" /\ ret.arg = "A"
    /\ \E h \in DynamicHandles :
          /\ ChildIdOf(h) = "c2"
          /\ "c2" \notin KeySet("A") /\ "c2" \in KeySet("B")
          /\ ~handles[h].visible
          /\ TransformOf(handles[h]) = Completed(PartialOf("B", "c2"))

(* C17 *)

\* C17: lookups are side-effect-free. getChildClip (getActiveComponentByKey),
\* getStateConfig (getStateConfigById) and getStateIds, for any argument and
\* in every state, change neither the active state, nor the resident and
\* dynamic registries, nor any child's visible or transform fields; and
\* getStateConfigById returns null for an id that is not declared.
LookupsSideEffectFree ==
    [][ret'.op \in {"getChildClip", "getStateConfig", "getStateIds"} =>
          /\ NothingSwitched
          /\ residentComponentsByKey' = residentComponentsByKey
          /\ dynamicChildrenIds' = dynamicChildrenIds
          /\ components' = components
          /\ componentKeys' = componentKeys
          /\ states' = states
          /\ stateIds' = stateIds
          /\ (ret'.op = "getStateConfig" /\ ret'.arg \notin DeclaredStateIds) =>
                (ret'.outcome = "null" /\ ret'.value = <<>>)
          /\ (ret'.op = "getStateConfig" /\ ret'.arg \in DeclaredStateIds) =>
                (ret'.outcome = "found" /\ ret'.value = StateConfigOf(ret'.arg))]_vars

\* getStateConfig of an undeclared id has returned null while state B is
\* active and a dynamic child is hidden.
LookupsSideEffectFreeWitness ==
    /\ ret.op = "getStateConfig" /\ ret.arg = "nope" /\ ret.outcome = "null"
    /\ currentStateId = "B"
    /\ \E h \in DynamicHandles : ~handles[h].visible

-----------------------------------------------------------------------------
(* A composite with a zone, a masking polygon and nested composites *)

\* setState arguments for the parent and the nested clip: the parent declares
\* A and B, the nested clip B and S.
TreeStateArgs == {"A", "B", "S"}

\* A composite without states, nested in the nested composite.
DeepConfig ==
    [type |-> TYPE_COMPONENT, childId |-> "deep",
     children |-> << [type |-> TYPE_TILE_SPRITE, childId |-> "d1"] @@ ("x" :> 1) >>]

InnerConfig(withDeep) ==
    [type |-> TYPE_COMPONENT, childId |-> "inner",
     children |->
        << [type |-> TYPE_IMAGE, childId |-> "n1"] @@ ("x" :> 1),
           [type |-> TYPE_TEXT, childId |-> "n2"] @@ ("key" :> "k1") >>
        \o (IF withDeep THEN <<DeepConfig>> ELSE <<>>),
     states |->
        << [id |-> "B", config |-> << [id |-> "n1", params |-> <<>>] >>],
           [id |-> "S", config |-> << [id |-> "n2", params |-> ("x" :> MaxVal)] >>] >>]
    @@ ("key" :> "k2") @@ ("x" :> 1) @@ ("y" :> MaxVal) @@ ("scaleY" :> MaxVal)

\* The parent: an image, a zone, the nested composite and a polygon, which
\* comes first or last and masks c1 and inner or nothing.
TreeConfig(withDeep, innerDynamic, polyFirst, masking) ==
    LET img == [type |-> TYPE_IMAGE, childId |-> "c1"] @@ ("key" :> "k1")
                    @@ ("x" :> 1)
        zone == [type |-> TYPE_ZONE, childId |-> "zone"] @@ ("x" :> 1)
                    @@ ("y" :> MaxVal) @@ ("scaleX" :> MaxVal)
                    @@ ("angle" :> 1) @@ ("alpha" :> 0)
        poly == [type |-> TYPE_POLYGON, childId |-> "mask"] @@ ("x" :> 1)
                    @@ (IF masking THEN ("masking" :> <<"c1", "inner">>) ELSE <<>>)
        rest == <<img, zone, InnerConfig(withDeep)>>
    IN [type |-> TYPE_COMPONENT,
        children |-> IF polyFirst THEN <<poly>> \o rest ELSE rest \o <<poly>>,
        states |->
           << [id |-> "A", config |-> << [id |-> "c1", params |-> ("x" :> MaxVal)] >>],
              [id |-> "B", config |->
                  IF innerDynamic
                  THEN << [id |-> "inner", params |-> ("y" :> 1) @@ ("alpha" :> 0)] >>
                  ELSE <<>>] >>]

TreeConfigs ==
    { TreeConfig(withDeep, innerDynamic, polyFirst, masking) :
        withDeep \in BOOLEAN, innerDynamic \in BOOLEAN,
        polyFirst \in BOOLEAN, masking \in BOOLEAN }

\* After new ComponentClip(scene, cfg, textures). When the constructor threw,
\* the variables hold the clip as it was at the throw and no call follows.
InitTree ==
    \E cfg \in TreeConfigs :
        LET clip == NewComponentClip(cfg) IN
        /\ config = cfg
        /\ handles = clip.handles
        /\ childrenById = clip.childrenById
        /\ childComponentClips = clip.childComponentClips
        /\ list = clip.list
        /\ masks = clip.masks
        /\ dynamicChildrenIds = clip.sm.dynamicChildrenIds
        /\ states = clip.sm.states
        /\ stateIds = clip.sm.stateIds
        /\ components = clip.sm.components
        /\ componentKeys = clip.sm.componentKeys
        /\ residentComponentsByKey = clip.sm.residentComponentsByKey
        /\ currentState = clip.sm.currentState
        /\ currentStateId = clip.sm.currentStateId
        /\ nested = clip.nested
        /\ destroyed = <<>>
        /\ ret = Ret("new", "", FALSE, NoHandle,
                     IF clip.error THEN "TypeError" ELSE "applied")

\* The constructor returned a clip.
Constructed == ~(ret.op = "new" /\ ret.outcome = "TypeError")

\* setState of a clip that resolves the id in the parent's StateManager.
ClipSetState_UsesParentStates(clip, stateId, force) ==
    IF stateId \notin DOMAIN states \/ (clip.sm.currentStateId = stateId /\ ~force)
    THEN [clip |-> clip, outcome |-> "noop"]
    ELSE [clip |-> [clip EXCEPT !.sm.currentStateId = stateId,
                                !.sm.currentState = stateId],
          outcome |-> "TypeError"]

\* clip.setState(stateId, force) on a clip held as a value: StateManager
\* .setState and .setupState over the clip's own StateManager and handles.
ClipSetState(clip, stateId, force) ==
    IF stateId \notin DOMAIN clip.sm.states
          \/ (clip.sm.currentStateId = stateId /\ ~force)
    THEN [clip |-> clip, outcome |-> "noop"]
    ELSE LET state == clip.sm.states[stateId]
             idsToShow == state.componentIds
             idsToHide == Difference(clip.sm.dynamicChildrenIds, idsToShow)
             hidden == HidePass(idsToHide, clip.sm.components, clip.handles)
             done == IF hidden.thrown THEN hidden
                     ELSE ShowPass(idsToShow, state.config, clip.sm.components,
                                   hidden.handles)
         IN [clip |-> [clip EXCEPT !.sm.currentStateId = stateId,
                                   !.sm.currentState = stateId,
                                   !.handles = done.handles],
             outcome |-> IF done.thrown THEN "TypeError" ELSE "applied"]

\* setState on the nested clip under handle h.
NestedSetState(h, stateId, force) ==
    LET done == ClipSetState(nested[h], stateId, force) IN
    /\ nested' = [nested EXCEPT ![h] = done.clip]
    /\ ret' = Ret("nested.setState", stateId, force, h, done.outcome)
    /\ UNCHANGED <<built, handles, currentState, currentStateId, destroyed>>

RECURSIVE DestroyClip(_, _, _)
RECURSIVE DestroyChildren(_, _, _, _)
\* for (let child of this.childComponentClips) child.destroy(fromScene): a
\* nested clip runs its own destroy, any other child is released.
DestroyChildren(clip, children, path, fromScene) ==
    IF children = <<>> THEN <<>>
    ELSE (IF Head(children) \in DOMAIN clip.nested
          THEN DestroyClip(clip.nested[Head(children)],
                           Append(path, Head(children)), fromScene)
          ELSE << [path |-> Append(path, Head(children)), fromScene |-> fromScene] >>)
         \o DestroyChildren(clip, Tail(children), path, fromScene)

\* destroy() releasing the clip's own handle before its children.
DestroyClip_SelfFirst(clip, path, fromScene) ==
    << [path |-> path, fromScene |-> fromScene] >>
    \o DestroyChildren(clip, clip.childComponentClips, path, fromScene)

\* destroy(fromScene) of the clip at path: the children, then
\* super.destroy(fromScene). The result is the releases in order.
DestroyClip(clip, path, fromScene) ==
    DestroyChildren(clip, clip.childComponentClips, path, fromScene)
    \o << [path |-> path, fromScene |-> fromScene] >>

\* destroy(fromScene) on the parent, once.
Destroy(fromScene) ==
    /\ destroyed = <<>>
    /\ destroyed' = DestroyClip([childComponentClips |-> childComponentClips,
                                 nested |-> nested], <<>>, fromScene)
    /\ ret' = Ret("destroy", "", fromScene, NoHandle, "applied")
    /\ UNCHANGED <<built, handles, currentState, currentStateId, nested>>

NextTree ==
    \/ \E stateId \in TreeStateArgs, force \in BOOLEAN :
            Constructed /\ SetState(stateId, force)
    \/ \E h \in DOMAIN nested, stateId \in TreeStateArgs, force \in BOOLEAN :
            Constructed /\ NestedSetState(h, stateId, force)
    \/ \E fromScene \in BOOLEAN : Constructed /\ Destroy(fromScene)

SpecTree == InitTree /\ [][NextTree]_vars

-----------------------------------------------------------------------------
(* The vocabulary of the tree properties *)

\* The transform fields a child's config owns.
TransformPart(cfg) == [f \in DOMAIN cfg \cap TransformFields |-> cfg[f]]

IsMaskingPolygon(h) ==
    config.children[h].type = TYPE_POLYGON /\ "masking" \in DOMAIN config.children[h]

\* The state ids the config of the nested clip under handle h declares.
NestedDeclaredStateIds(h) ==
    {config.children[h]["states"][i].id : i \in 1..Len(config.children[h]["states"])}

RECURSIVE PathsOf(_, _, _)
\* The clip at path and everything constructed under it, each named by its
\* path of handles from the parent.
PathsOf(h, nest, path) ==
    {path} \cup UNION { IF c \in DOMAIN nest
                        THEN PathsOf(nest[c].handles, nest[c].nested, Append(path, c))
                        ELSE {Append(path, c)} : c \in DOMAIN h }

\* p names a clip that q is constructed under.
IsAbove(p, q) == Len(p) < Len(q) /\ SubSeq(q, 1, Len(p)) = p

(* C16 *)

\* C16: construction applies the full design-time transform to every child.
\* After the composite is built, every constructed child of every type has
\* x, y, scaleX, scaleY, angle and alpha equal to its own config's values
\* completed with defaults, and is registered with the StateManager under
\* its childId and key (the last resident child of a key holds the key).
ConstructionAppliesTransform ==
    (ret.op = "new" /\ ret.outcome = "applied") =>
        \A h \in DOMAIN handles :
            LET cfg == config.children[h] IN
            /\ TransformOf(handles[h]) = Completed(TransformPart(cfg))
            /\ h \in DynamicHandles =>
                  /\ cfg.childId \in DOMAIN components
                  /\ components[cfg.childId] = h
                  /\ "key" \in DOMAIN cfg =>
                        /\ cfg.childId \in DOMAIN componentKeys
                        /\ componentKeys[cfg.childId] = cfg["key"]
            /\ (h \in ResidentHandles /\ "key" \in DOMAIN cfg) =>
                  /\ cfg["key"] \in DOMAIN residentComponentsByKey
                  /\ residentComponentsByKey[cfg["key"]] >= h
                  /\ HasKey(residentComponentsByKey[cfg["key"]], cfg["key"])

(* C18 *)

\* C18: destroy is depth-first and complete. destroy(fromScene) releases
\* every child the composite constructed and every descendant of its nested
\* composites exactly once, each before the clip it was constructed under
\* and the composite's own handle last, each with the same fromScene flag,
\* whatever state is active and also when none is.
DestroyDepthFirst ==
    ret.op = "destroy" =>
        LET all == PathsOf(handles, nested, <<>>)
            at == 1..Len(destroyed)
        IN /\ \A p \in all : Cardinality({i \in at : destroyed[i].path = p}) = 1
           /\ \A i \in at : /\ destroyed[i].path \in all
                            /\ destroyed[i].fromScene = ret.force
           /\ \A i, j \in at :
                 IsAbove(destroyed[i].path, destroyed[j].path) => j < i
           /\ destroyed[Len(destroyed)].path = <<>>

\* destroy(true) was called while no state was active, and released a
\* grandchild, the masking polygon and the composite itself.
DestroyDepthFirstWitness ==
    /\ ret.op = "destroy" /\ ret.force /\ currentStateId = Null
    /\ \E i \in 1..Len(destroyed) : Len(destroyed[i].path) = 3
    /\ \E h \in DOMAIN handles :
          /\ IsMaskingPolygon(h)
          /\ \E i \in 1..Len(destroyed) : destroyed[i].path = <<h>>

(* C19 *)

\* The mask made from polygon h is set on every sibling its masking list
\* names, each constructed before h.
MaskSetOnSiblings(h) ==
    \A i \in 1..Len(config.children[h]["masking"]) :
        \E g \in DOMAIN handles :
            /\ g < h
            /\ ChildIdOf(g) = config.children[h]["masking"][i]
            /\ g \in DOMAIN masks /\ masks[g] = h

\* Every constructed child is owned: it is in childComponentClips and in
\* _childrenById.
Owned(h) ==
    /\ Contains(childComponentClips, h)
    /\ ChildIdOf(h) \in DOMAIN childrenById /\ childrenById[ChildIdOf(h)] = h

\* Some masking list names a sibling that is not constructed before the
\* polygon.
MasksLaterSibling ==
    \E h \in 1..Len(config.children) :
        /\ IsMaskingPolygon(h)
        /\ \E i \in 1..Len(config.children[h]["masking"]) :
              \A g \in 1..(h - 1) :
                  config.children[g].childId # config.children[h]["masking"][i]

\* C19, as the code has it: a masking polygon is constructed, its mask is
\* set on every sibling its masking list names, and it is withheld from the
\* scene-graph child list only. It is owned like every other constructed
\* child (childComponentClips, _childrenById), and every other constructed
\* child is in both lists. The constructor throws exactly when a masking
\* list names a sibling that is not constructed before the polygon.
MaskingPolygonWithheldFromDisplayList ==
    /\ (ret.op = "new" /\ ret.outcome = "TypeError") <=> MasksLaterSibling
    /\ Constructed =>
          \A h \in DOMAIN handles :
              /\ Owned(h)
              /\ Contains(list, h) <=> ~IsMaskingPolygon(h)
              /\ IsMaskingPolygon(h) => MaskSetOnSiblings(h)

\* A masking polygon was constructed last, masks c1, is not in the display
\* list and is in childComponentClips.
MaskingPolygonWitness ==
    /\ Constructed
    /\ \E h \in DOMAIN handles :
          /\ IsMaskingPolygon(h) /\ MaskSetOnSiblings(h)
          /\ ~Contains(list, h) /\ Contains(childComponentClips, h)

\* C19, as stated: the masking polygon is excluded from the scene-graph
\* child list and from the owned child list, and every other constructed
\* child is in both.
MaskingPolygonExcludedFromChildLists ==
    Constructed =>
        \A h \in DOMAIN handles :
            /\ Contains(list, h) <=> ~IsMaskingPolygon(h)
            /\ Contains(childComponentClips, h) <=> ~IsMaskingPolygon(h)
            /\ IsMaskingPolygon(h) => MaskSetOnSiblings(h)

(* C20 *)

\* C20: nested composites have independent state machines. A setState on
\* the parent leaves every nested clip (its active state, its children) as it
\* was and changes the nested composite's own handle only when that is a
\* dynamic child; a setState on a nested clip resolves the id among the
\* nested clip's own states, and leaves the parent's active state, all the
\* parent's children and every other nested clip as they were.
NestedIndependent ==
    [][/\ ret'.op = "setState" =>
             /\ nested' = nested
             /\ \A h \in DOMAIN nested :
                   h \notin DynamicHandles => handles'[h] = handles[h]
       /\ ret'.op = "nested.setState" =>
             /\ NothingSwitched
             /\ \A k \in DOMAIN nested \ {ret'.result} : nested'[k] = nested[k]
             /\ ret'.arg \in NestedDeclaredStateIds(ret'.result) =>
                   /\ nested'[ret'.result].sm.currentStateId = ret'.arg
                   /\ ret'.outcome = "noop" => nested' = nested
             /\ ret'.arg \notin NestedDeclaredStateIds(ret'.result) =>
                   nested' = nested]_vars

\* The parent has just switched to B, which shows the nested composite with
\* B's transform, while the nested clip is in its own state S.
NestedIndependentWitness ==
    /\ ret.op = "setState" /\ ret.outcome = "applied" /\ currentStateId = "B"
    /\ \E h \in DOMAIN nested :
          /\ h \in DynamicHandles
          /\ handles[h].visible /\ handles[h].alpha = 0
          /\ nested[h].sm.currentStateId = "S"
          /\ \E c \in DOMAIN nested[h].handles : ~nested[h].handles[c].visible

====
